---- MODULE Spec2Model ----
(***************************************************************************)
(* The Stereonet class of src/src/core.ts (lines 77-674): the plane and    *)
(* line registries (two insertion-ordered Maps keyed by id.toString()),    *)
(* the style table, the representation mode, the graticule flag and the    *)
(* children of the svg group `g` the class draws into.                     *)
(*                                                                         *)
(* Left out: fade-in transitions and the tooltip handlers' DOM effects     *)
(* (they never touch the registries or the children of `g`); an element    *)
(* keeps the (dipAngle, dipDirection) its hover handler closes over.       *)
(* Angles are whole degrees.                                               *)
(***************************************************************************)
EXTENDS Integers, Sequences, FiniteSets, TLC

VARIABLES
    planes,              \* this.planes : Map<string, PlaneData>, in insertion order
    lines,               \* this.lines  : Map<string, LineData>, in insertion order
    g,                   \* the child elements of this.g (the drawing surface)
    planeRepresentation, \* this.planeRepresentation
    graticulesVisible,   \* this.graticulesVisible
    styles,              \* this.styles
    width,               \* this.width
    height,              \* this.height
    ret                  \* the last public call: its arguments, result and error

vars == <<planes, lines, g, planeRepresentation, graticulesVisible,
          styles, width, height, ret>>

(***************************************************************************)
(* Bounds of the model.                                                    *)
(***************************************************************************)
\* at most this many data primitives (planes, lines, leftovers) are children of g
MaxPrimitives == 2
\* removePlane / removeLine are called with ids 0..MaxId
MaxId == 1

\* JavaScript values: a call's result is <<>> (undefined) or <<id>>; an
\* attribute is <<>> (not set) or <<value>>
Undefined == <<>>
NoError == "none"
StyleNotFound == "Error: Style for class not found."
InvalidRepresentation == "Error: Invalid representation type"

\* arguments the calls are tried with
Measurements == {<<30, 45>>, <<90, 360>>, <<95, 45>>}
Representations == {"arc", "pole", "dot"}
Widths == {600}
\* the options the instance is constructed with: showGraticules and
\* planeRepresentation at their defaults (src/src/core.ts:105-107)
InitialWidths == {900}
ShowGraticulesOptions == {TRUE}
RepresentationOptions == {"arc"}
ToggleArgs == {"undefined", "true", "false"}

(***************************************************************************)
(* Number.prototype.toString and parseInt(s, 10) on non-negative integers. *)
(***************************************************************************)
Digits == <<"0", "1", "2", "3", "4", "5", "6", "7", "8", "9">>

RECURSIVE toString(_)
toString(n) ==
    IF n < 10 THEN Digits[n + 1]
    ELSE toString(n \div 10) \o Digits[(n % 10) + 1]

parseInt(s) == CHOOSE n \in 0..(10 * MaxPrimitives) : toString(n) = s

(***************************************************************************)
(* The style table.  A style is the sequence of its <<key, value>> pairs   *)
(* (Object.entries order).  this.styles is a plain object: a class is an   *)
(* `own` property of it or not, and an own property whose value is         *)
(* undefined is not `defined`; a name it does not own is looked up in      *)
(* Object.prototype.                                                       *)
(***************************************************************************)
ClassNames == {"outline", "graticule", "graticule_10_deg", "crosshairs",
               "data_plane", "data_plane_pole", "data_line", "cardinal",
               "custom", "constructor"}

\* the names a plain object inherits, among ClassNames
ObjectPrototypeKeys == {"constructor"}

Style(e) == [own |-> TRUE, defined |-> TRUE, entries |-> e]
UndefinedStyle == [own |-> TRUE, defined |-> FALSE, entries |-> <<>>]
NoProperty == [own |-> FALSE, defined |-> FALSE, entries |-> <<>>]

DEFAULT_STYLE ==
    [c \in ClassNames |->
        CASE c = "outline" ->
               Style(<< <<"fill", "none">>, <<"stroke", "#000">>,
                        <<"stroke-width", "4px">>, <<"stroke-opacity", "0.5">> >>)
          [] c = "graticule" ->
               Style(<< <<"fill", "none">>, <<"stroke", " #777">>,
                        <<"stroke-width", ".5px">>, <<"stroke-opacity", "0.5">> >>)
          [] c = "graticule_10_deg" ->
               Style(<< <<"stroke", "#000">>, <<"stroke-width", "0.6">>,
                        <<"fill", "none">> >>)
          [] c = "crosshairs" ->
               Style(<< <<"stroke", "#000">>, <<"stroke-width", "1">>,
                        <<"fill", "none">> >>)
          [] c = "data_plane" ->
               Style(<< <<"stroke", "#d14747">>, <<"stroke-width", "3">>,
                        <<"fill", "none">> >>)
          [] c = "data_plane_pole" ->
               Style(<< <<"fill", "#d14747">>, <<"stroke", "#d14747">>,
                        <<"stroke-width", "2">>, <<"stroke-opacity", "0.5">>,
                        <<"fill-opacity", "1">> >>)
          [] c = "data_line" ->
               Style(<< <<"fill", "#0328fc">>, <<"stroke", "#0328fc">>,
                        <<"stroke-width", "2">>, <<"stroke-opacity", "0.5">>,
                        <<"fill-opacity", "1">> >>)
          [] c = "cardinal" ->
               Style(<< <<"fill", "#000">>, <<"font-size", "12px">>,
                        <<"text-anchor", "middle">> >>)
          [] OTHER -> NoProperty]

\* the `style` option of the constructor (a Partial<StereonetStyle>): the
\* classes it carries, each with the value undefined
StyleOptions == { {}, {"data_plane_pole"} }

\* the styles setStyle is called with
CustomStyle == Style(<< <<"stroke", "#00ff00">>, <<"stroke-width", "5px">> >>)
SetStyleClasses == {"data_plane", "data_plane_pole", "custom"}

\* { ...DEFAULT_STYLE, ...style } for a style option carrying `over`
MergeStyles(base, over) ==
    [c \in ClassNames |-> IF c \in over THEN UndefinedStyle ELSE base[c]]

\* Object.entries(style).map(([key, value]) => `${key}: ${value};`).join(" ")
RECURSIVE JoinEntries(_)
JoinEntries(s) ==
    IF Len(s) = 0 THEN ""
    ELSE IF Len(s) = 1 THEN s[1][1] \o ": " \o s[1][2] \o ";"
    ELSE s[1][1] \o ": " \o s[1][2] \o ";" \o " " \o JoinEntries(Tail(s))

\* this.styles[className]: the own property, else the inherited one (a
\* function, which is truthy and has no entries), else undefined
Lookup(st, className) ==
    IF st[className].own THEN st[className]
    ELSE IF className \in ObjectPrototypeKeys THEN Style(<<>>)
    ELSE UndefinedStyle

\* getStyle(className): the string, or the error thrown
getStyle(st, className) ==
    LET style == Lookup(st, className)
    IN  IF ~style.defined
        THEN [err |-> StyleNotFound, value |-> ""]
        ELSE [err |-> NoError, value |-> JoinEntries(style.entries)]

(***************************************************************************)
(* Map<string, V> as the sequence of its [key, val] entries in insertion   *)
(* order.                                                                  *)
(***************************************************************************)
MapHas(m, k) == \E i \in 1..Len(m) : m[i].key = k

MapGet(m, k) == m[CHOOSE i \in 1..Len(m) : m[i].key = k].val

\* Map.prototype.set: an existing key keeps its place and takes the value
MapSet(m, k, v) ==
    IF MapHas(m, k)
    THEN [i \in 1..Len(m) |-> IF m[i].key = k THEN [key |-> k, val |-> v] ELSE m[i]]
    ELSE Append(m, [key |-> k, val |-> v])

MapDelete(m, k) == SelectSeq(m, LAMBDA e : e.key # k)

MapKeys(m) == {m[i].key : i \in 1..Len(m)}

\* PlaneData / LineData; `path` is <<h>>, the selection of element h, or <<>> (null)
PlaneData(dipAngle, dipDirection, path) ==
    [dipAngle |-> dipAngle, dipDirection |-> dipDirection, path |-> path]

\* a d3 selection stored as it is (src/src/core.ts:476, 517)
Selection(h) == [node |-> h]

(***************************************************************************)
(* The children of `g`, in document order.  An element is the record of    *)
(* its attributes; h is its identity.  Between calls an element is named   *)
(* by its place among the children of g (see Canonical); during a call a   *)
(* new element takes a name no element alive during the call has.          *)
(***************************************************************************)
\* this.g.append("path")
BareElement(h) ==
    [h |-> h, class |-> "", style |-> <<>>, transform |-> <<>>,
     datum |-> <<>>, dataId |-> <<>>, display |-> "", hover |-> <<>>]

\* the identity of a newly created element: one that no element alive
\* during the running call has
NewHandle(s) == CHOOSE h \in 0..Cardinality(s.alive) : h \notin s.alive

AppendPath(s) ==
    [s EXCEPT !.g = Append(@, BareElement(NewHandle(s))),
              !.alive = @ \cup {NewHandle(s)}]

\* selection.attr(...)/.datum(...)/.on(...) on element h
UpdateElement(s, h, e) ==
    [s EXCEPT !.g = [i \in 1..Len(@) |-> IF @[i].h = h THEN e ELSE @[i]]]

\* selection.remove() on the selection `path` (<<h>>, or <<>> for none)
RemovePath(s, path) ==
    [s EXCEPT !.g = SelectSeq(@, LAMBDA x : \A i \in 1..Len(path) : x.h # path[i])]

\* _elementTransformString: translate(width / 2, height / 2)
elementTransformString(s) == <<s.width \div 2, s.height \div 2>>

Thrown(s, err) == [s |-> s, err |-> err, path |-> <<>>, result |-> Undefined]

\* this.g.append("path").datum(d).attr("class", c).attr("style", getStyle(cls))
\*     .attr("transform", ...): the element is appended before getStyle runs
AppendStyled(s, cls, class, datum, rotate) ==
    LET h == NewHandle(s)
        s1 == AppendPath(s)
        st == getStyle(s.styles, cls)
    IN  IF st.err # NoError
        THEN Thrown(UpdateElement(s1, h, [BareElement(h) EXCEPT !.datum = datum,
                                                                !.class = class]),
                    st.err)
        ELSE [s |-> UpdateElement(s1, h,
                        [BareElement(h) EXCEPT
                            !.class = class,
                            !.datum = datum,
                            !.style = <<st.value>>,
                            !.transform = <<elementTransformString(s), rotate>>]),
              err |-> NoError, path |-> <<h>>, result |-> Undefined]

renderBaseGraticules(s) ==
    LET r1 == AppendStyled(s, "graticule", "graticule", <<"graticule2">>, <<>>)
        r2 == AppendStyled(r1.s, "graticule_10_deg", "graticule-10", <<"graticule10">>, <<>>)
        r3 == AppendStyled(r2.s, "outline", "outline", <<"outline">>, <<>>)
    IN  IF r1.err # NoError THEN r1
        ELSE IF r2.err # NoError THEN r2
        ELSE r3

renderOutlineCrosshairs(s) ==
    LET r1 == AppendStyled(s, "crosshairs", "", <<"crosshairs">>, <<>>)
        r2 == AppendStyled(r1.s, "outline", "", <<"outline">>, <<>>)
    IN  IF r1.err # NoError THEN r1 ELSE r2

\* as validateDipDirection, with a dip angle of 0 turned away
validateDipDirection_AboveZero(dipAngle, dipDirection) ==
    IF dipAngle <= 0 \/ dipAngle > 90 THEN FALSE
    ELSE IF dipDirection < 0 \/ dipDirection > 360 THEN FALSE
    ELSE TRUE

\* as validateDipDirection, with 360 itself turned away
validateDipDirection_Below360(dipAngle, dipDirection) ==
    IF dipAngle < 0 \/ dipAngle > 90 THEN FALSE
    ELSE IF dipDirection < 0 \/ dipDirection >= 360 THEN FALSE
    ELSE TRUE

\* _validateDipDirection
validateDipDirection(dipAngle, dipDirection) ==
    IF dipAngle < 0 \/ dipAngle > 90 THEN FALSE
    ELSE IF dipDirection < 0 \/ dipDirection > 360 THEN FALSE
    ELSE TRUE

\* as calculatePoleCoordinates, without the subtraction of 360
calculatePoleCoordinates_Unwrapped(dipAngle, dipDirection) ==
    <<90 - dipAngle, dipDirection + 180>>

\* _calculatePoleCoordinates: <<d, dd>>
calculatePoleCoordinates(dipAngle, dipDirection) ==
    LET dd0 == dipDirection + 180
        dd == IF dd0 >= 360 THEN dipDirection + 180 - 360 ELSE dd0
    IN  <<90 - dipAngle, dd>>

\* _addPlaneHoverInteraction / _addLineHoverInteraction: the handlers close
\* over the measurement
AddHover(s, h, dipAngle, dipDirection) ==
    [s EXCEPT !.g = [i \in 1..Len(@) |->
                        IF @[i].h = h
                        THEN [@[i] EXCEPT !.hover = <<dipAngle, dipDirection>>]
                        ELSE @[i]]]

\* .attr("data-id", id)
SetDataId(s, h, id) ==
    [s EXCEPT !.g = [i \in 1..Len(@) |->
                        IF @[i].h = h THEN [@[i] EXCEPT !.dataId = <<id>>] ELSE @[i]]]

renderPlaneAsArc(s, dipAngle, dipDirection, id) ==
    LET extentStart == 90 - dipAngle
        extentEnd == 90 - (dipAngle - 1)
        r == AppendStyled(s, "data_plane", "",
                          <<"graticule", extentStart, -90, extentEnd, 90>>,
                          <<dipDirection - 90>>)
        h == r.path[1]
        s1 == AddHover(SetDataId(r.s, h, id), h, dipAngle, dipDirection)
    IN  IF r.err # NoError THEN r
        ELSE [r EXCEPT !.s = [s1 EXCEPT !.planes = MapSet(@, toString(id), Selection(h))]]

\* as _renderPlaneAsPole, with the point addLine draws for this dipAngle
renderPlaneAsPole_AtLinePoint(s, dipAngle, dipDirection, id) ==
    LET poleCoords == calculatePoleCoordinates(dipAngle, dipDirection)
        r == AppendStyled(s, "data_plane_pole", "",
                          <<"Point", 0, 90 - dipAngle>>,
                          <<poleCoords[2]>>)
        h == r.path[1]
        s1 == AddHover(SetDataId(r.s, h, id), h, dipAngle, dipDirection)
    IN  IF r.err # NoError THEN r
        ELSE [r EXCEPT !.s = [s1 EXCEPT !.planes = MapSet(@, toString(id), Selection(h))]]

renderPlaneAsPole(s, dipAngle, dipDirection, id) ==
    LET poleCoords == calculatePoleCoordinates(dipAngle, dipDirection)
        r == AppendStyled(s, "data_plane_pole", "",
                          <<"Point", 0, 90 - poleCoords[1]>>,
                          <<poleCoords[2]>>)
        h == r.path[1]
        s1 == AddHover(SetDataId(r.s, h, id), h, dipAngle, dipDirection)
    IN  IF r.err # NoError THEN r
        ELSE [r EXCEPT !.s = [s1 EXCEPT !.planes = MapSet(@, toString(id), Selection(h))]]

\* the branch of addPlane / setPlaneRepresentation on this.planeRepresentation
RenderPlane(s, dipAngle, dipDirection, id) ==
    IF s.planeRepresentation = "arc"
    THEN renderPlaneAsArc(s, dipAngle, dipDirection, id)
    ELSE IF s.planeRepresentation = "pole"
    THEN renderPlaneAsPole(s, dipAngle, dipDirection, id)
    ELSE [s |-> s, err |-> NoError, path |-> <<>>, result |-> Undefined]

(***************************************************************************)
(* The public operations, as functions of the instance `s`; each gives the *)
(* instance it leaves, the value it returns and the error it throws.       *)
(***************************************************************************)
Returned(s, result) == [s |-> s, err |-> NoError, path |-> <<>>, result |-> result]

\* as addPlane, numbering from one
addPlane_FromOne(s, dipAngle, dipDirection) ==
    IF ~validateDipDirection(dipAngle, dipDirection)
    THEN Returned(s, Undefined)
    ELSE LET id == Len(s.planes) + 1
             r == RenderPlane(s, dipAngle, dipDirection, id)
         IN  IF r.err # NoError THEN r
             ELSE Returned([r.s EXCEPT !.planes =
                               MapSet(@, toString(id),
                                      PlaneData(dipAngle, dipDirection, r.path))],
                           <<id>>)

\* as addPlane, validating only after the primitive is drawn
addPlane_ValidatesLate(s, dipAngle, dipDirection) ==
    LET id == Len(s.planes)
        r == RenderPlane(s, dipAngle, dipDirection, id)
    IN  IF r.err # NoError THEN r
        ELSE IF ~validateDipDirection(dipAngle, dipDirection)
        THEN Returned([r.s EXCEPT !.planes = s.planes], Undefined)
        ELSE Returned([r.s EXCEPT !.planes =
                          MapSet(@, toString(id),
                                 PlaneData(dipAngle, dipDirection, r.path))],
                      <<id>>)

addPlane(s, dipAngle, dipDirection) ==
    IF ~validateDipDirection(dipAngle, dipDirection)
    THEN Returned(s, Undefined)
    ELSE LET id == Len(s.planes)
             r == RenderPlane(s, dipAngle, dipDirection, id)
         IN  IF r.err # NoError THEN r
             ELSE Returned([r.s EXCEPT !.planes =
                               MapSet(@, toString(id),
                                      PlaneData(dipAngle, dipDirection, r.path))],
                           <<id>>)

\* as removePlane, without this.planes.delete(strId)
removePlane_KeepsEntry(s, planeId) ==
    LET strId == toString(planeId)
    IN  IF MapHas(s.planes, strId)
        THEN Returned(RemovePath(s, MapGet(s.planes, strId).path), Undefined)
        ELSE Returned(s, Undefined)

removePlane(s, planeId) ==
    LET strId == toString(planeId)
    IN  IF MapHas(s.planes, strId)
        THEN Returned([RemovePath(s, MapGet(s.planes, strId).path)
                          EXCEPT !.planes = MapDelete(@, strId)], Undefined)
        ELSE Returned(s, Undefined)

\* Array.from(this.planes).map(line => ({ id: line[0], path: line[1] }))
getPlanes(s) == [i \in 1..Len(s.planes) |-> [id |-> s.planes[i].key, path |-> s.planes[i].val]]

addLine(s, dipAngle, dipDirection) ==
    IF ~validateDipDirection(dipAngle, dipDirection)
    THEN Returned(s, Undefined)
    ELSE LET id == Len(s.lines)
             r == AppendStyled(s, "data_line", "", <<"Point", 0, 90 - dipAngle>>,
                               <<dipDirection>>)
             h == r.path[1]
             s1 == AddHover(SetDataId(r.s, h, id), h, dipAngle, dipDirection)
         IN  IF r.err # NoError THEN r
             ELSE Returned([s1 EXCEPT !.lines =
                               MapSet(@, toString(id),
                                      PlaneData(dipAngle, dipDirection, r.path))],
                           <<id>>)

\* as removeLine, looking the id up in this.planes
removeLine_InPlanes(s, lineId) ==
    LET strId == toString(lineId)
    IN  IF MapHas(s.planes, strId)
        THEN Returned([RemovePath(s, MapGet(s.planes, strId).path)
                          EXCEPT !.planes = MapDelete(@, strId)], Undefined)
        ELSE Returned(s, Undefined)

removeLine(s, lineId) ==
    LET strId == toString(lineId)
    IN  IF MapHas(s.lines, strId)
        THEN Returned([RemovePath(s, MapGet(s.lines, strId).path)
                          EXCEPT !.lines = MapDelete(@, strId)], Undefined)
        ELSE Returned(s, Undefined)

getLines(s) == [i \in 1..Len(s.lines) |-> [id |-> s.lines[i].key, path |-> s.lines[i].val]]

\* for (const [, plane] of currentPlanes) this.addPlane(...): stops at a throw
RECURSIVE AddPlanes(_, _)
AddPlanes(s, entries) ==
    IF Len(entries) = 0 THEN Returned(s, Undefined)
    ELSE LET r == addPlane(s, entries[1].val.dipAngle, entries[1].val.dipDirection)
         IN  IF r.err # NoError THEN r ELSE AddPlanes(r.s, Tail(entries))

RECURSIVE AddLines(_, _)
AddLines(s, entries) ==
    IF Len(entries) = 0 THEN Returned(s, Undefined)
    ELSE LET r == addLine(s, entries[1].val.dipAngle, entries[1].val.dipDirection)
         IN  IF r.err # NoError THEN r ELSE AddLines(r.s, Tail(entries))

\* as _resize, without this.g.selectAll("*").remove()
resize_KeepsSurface(s, rectWidth) ==
    LET s1 == [s EXCEPT !.width = rectWidth, !.height = rectWidth]
        r1 == IF s1.graticulesVisible THEN renderBaseGraticules(s1)
              ELSE Returned(s1, Undefined)
        r2 == renderOutlineCrosshairs(r1.s)
        currentPlanes == r2.s.planes
        currentLines == r2.s.lines
        s3 == [r2.s EXCEPT !.planes = <<>>, !.lines = <<>>]
        r4 == AddPlanes(s3, currentPlanes)
        r5 == AddLines(r4.s, currentLines)
    IN  IF r1.err # NoError THEN r1
        ELSE IF r2.err # NoError THEN r2
        ELSE IF r4.err # NoError THEN r4
        ELSE [r5 EXCEPT !.result = Undefined]

\* _resize, with rectWidth the container's width
resize(s, rectWidth) ==
    LET s1 == [s EXCEPT !.width = rectWidth, !.height = rectWidth, !.g = <<>>]
        r1 == IF s1.graticulesVisible THEN renderBaseGraticules(s1)
              ELSE Returned(s1, Undefined)
        r2 == renderOutlineCrosshairs(r1.s)
        currentPlanes == r2.s.planes
        currentLines == r2.s.lines
        s3 == [r2.s EXCEPT !.planes = <<>>, !.lines = <<>>]
        r4 == AddPlanes(s3, currentPlanes)
        r5 == AddLines(r4.s, currentLines)
    IN  IF r1.err # NoError THEN r1
        ELSE IF r2.err # NoError THEN r2
        ELSE IF r4.err # NoError THEN r4
        ELSE [r5 EXCEPT !.result = Undefined]

\* this.planes.forEach((_plane, id) => { get(id)?.path.remove(); delete(id) })
RECURSIVE ClearPlanes(_, _)
ClearPlanes(s, entries) ==
    IF Len(entries) = 0 THEN s
    ELSE ClearPlanes([RemovePath(s, entries[1].val.path)
                         EXCEPT !.planes = MapDelete(@, entries[1].key)],
                     Tail(entries))

\* _cachedPlanes.forEach(([id, planeData]) => { render; this.planes.set(...) })
RECURSIVE RerenderPlanes(_, _)
RerenderPlanes(s, cached) ==
    IF Len(cached) = 0 THEN Returned(s, Undefined)
    ELSE LET id == cached[1].key
             planeData == cached[1].val
             r == RenderPlane(s, planeData.dipAngle, planeData.dipDirection,
                              parseInt(id))
         IN  IF r.err # NoError THEN r
             ELSE RerenderPlanes(
                      [r.s EXCEPT !.planes =
                          MapSet(@, id, PlaneData(planeData.dipAngle,
                                                  planeData.dipDirection, r.path))],
                      Tail(cached))

\* as setPlaneRepresentation, deleting the entries without path.remove()
setPlaneRepresentation_KeepsPaths(s, representation) ==
    IF representation # "pole" /\ representation # "arc"
    THEN Thrown(s, InvalidRepresentation)
    ELSE LET s1 == [s EXCEPT !.planeRepresentation = representation]
             cachedPlanes == s1.planes
             s2 == [s1 EXCEPT !.planes = <<>>]
         IN  RerenderPlanes(s2, cachedPlanes)

\* as setPlaneRepresentation, taking _cachedPlanes after the planes are cleared
setPlaneRepresentation_CachesLate(s, representation) ==
    IF representation # "pole" /\ representation # "arc"
    THEN Thrown(s, InvalidRepresentation)
    ELSE LET s1 == [s EXCEPT !.planeRepresentation = representation]
             s2 == ClearPlanes(s1, s1.planes)
             cachedPlanes == s2.planes
         IN  RerenderPlanes(s2, cachedPlanes)

\* as setPlaneRepresentation, assigning the mode before checking it
setPlaneRepresentation_AssignsFirst(s, representation) ==
    LET s1 == [s EXCEPT !.planeRepresentation = representation]
    IN  IF representation # "pole" /\ representation # "arc"
        THEN Thrown(s1, InvalidRepresentation)
        ELSE RerenderPlanes(ClearPlanes(s1, s1.planes), s1.planes)

setPlaneRepresentation(s, representation) ==
    IF representation # "pole" /\ representation # "arc"
    THEN Thrown(s, InvalidRepresentation)
    ELSE LET s1 == [s EXCEPT !.planeRepresentation = representation]
             cachedPlanes == s1.planes
             s2 == ClearPlanes(s1, s1.planes)
         IN  RerenderPlanes(s2, cachedPlanes)

setStyle(s, className, style) ==
    Returned([s EXCEPT !.styles[className] = style], Undefined)

\* toggleGraticules(v), v one of "undefined", "true", "false"
toggleGraticules(s, v) ==
    LET show == IF v = "undefined" THEN ~s.graticulesVisible ELSE v = "true"
    IN  Returned([s EXCEPT
                    !.graticulesVisible = show,
                    !.g = [i \in 1..Len(@) |->
                           IF @[i].class \in {"graticule", "graticule-10", "outline"}
                           THEN [@[i] EXCEPT !.display = IF show THEN "block" ELSE "none"]
                           ELSE @[i]]],
                 Undefined)

\* the constructor, once the container is resolved
construct(style, showGraticules, representation, rectWidth) ==
    LET s0 == [planes |-> <<>>, lines |-> <<>>, g |-> <<>>, alive |-> {},
               planeRepresentation |-> representation,
               graticulesVisible |-> showGraticules,
               styles |-> MergeStyles(DEFAULT_STYLE, style),
               width |-> rectWidth, height |-> rectWidth]
        r1 == IF s0.graticulesVisible THEN renderBaseGraticules(s0)
              ELSE Returned(s0, Undefined)
    IN  IF r1.err # NoError THEN r1 ELSE renderOutlineCrosshairs(r1.s)

(***************************************************************************)
(* The state machine: one action per public call (and the window's resize  *)
(* event), each running its handler to completion.                         *)
(***************************************************************************)
\* the elements a registry's entries hold
Handles(m) == UNION {{m[i].val.path[j] : j \in 1..Len(m[i].val.path)} : i \in 1..Len(m)}

Attached(els) == {els[i].h : i \in 1..Len(els)}

\* the name an element has between calls: its place among the children of
\* g, and past them for an element only a registry still holds
Place(s, h) ==
    IF h \in Attached(s.g)
    THEN (CHOOSE i \in 1..Len(s.g) : s.g[i].h = h) - 1
    ELSE LET detached == (Handles(s.planes) \cup Handles(s.lines)) \ Attached(s.g)
         IN  Len(s.g) + Cardinality({d \in detached : d < h})

Canonical(s) ==
    LET Rename(m) == [i \in 1..Len(m) |->
                         [m[i] EXCEPT !.val.path =
                             [j \in 1..Len(m[i].val.path) |-> Place(s, m[i].val.path[j])]]]
    IN  [s EXCEPT !.g = [i \in 1..Len(s.g) |-> [s.g[i] EXCEPT !.h = i - 1]],
                  !.planes = Rename(s.planes),
                  !.lines = Rename(s.lines)]

\* the instance, as the operations above take it
Cur ==
    [planes |-> planes, lines |-> lines, g |-> g,
     alive |-> Attached(g) \cup Handles(planes) \cup Handles(lines),
     planeRepresentation |-> planeRepresentation,
     graticulesVisible |-> graticulesVisible, styles |-> styles,
     width |-> width, height |-> height]

Install(s) ==
    LET c == Canonical(s)
    IN
    /\ planes' = c.planes
    /\ lines' = c.lines
    /\ g' = c.g
    /\ planeRepresentation' = s.planeRepresentation
    /\ graticulesVisible' = s.graticulesVisible
    /\ styles' = s.styles
    /\ width' = s.width
    /\ height' = s.height

BaseData == {"graticule2", "graticule10", "outline", "crosshairs"}
DataElements(els) == {i \in 1..Len(els) : els[i].datum[1] \notin BaseData}

\* the call `op(args)` ran to its end with outcome r
Call(op, args, r) ==
    /\ Cardinality(DataElements(r.s.g)) <= MaxPrimitives
    /\ Install(r.s)
    /\ ret' = [op |-> op, args |-> args, result |-> r.result, err |-> r.err]

\* the instance `new Stereonet({...})` returns
Constructed(style, showGraticules, representation, rectWidth) ==
    LET r == construct(style, showGraticules, representation, rectWidth)
        c == Canonical(r.s)
    IN  /\ r.err = NoError
        /\ planes = c.planes
        /\ lines = c.lines
        /\ g = c.g
        /\ planeRepresentation = r.s.planeRepresentation
        /\ graticulesVisible = r.s.graticulesVisible
        /\ styles = r.s.styles
        /\ width = r.s.width
        /\ height = r.s.height
        /\ ret = [op |-> "new", args |-> <<>>, result |-> Undefined,
                  err |-> NoError]

Init ==
    \E style \in StyleOptions, showGraticules \in ShowGraticulesOptions,
       representation \in RepresentationOptions, rectWidth \in InitialWidths :
        Constructed(style, showGraticules, representation, rectWidth)

AddPlane(dipAngle, dipDirection) ==
    Call("addPlane", <<dipAngle, dipDirection>>, addPlane(Cur, dipAngle, dipDirection))

AddLine(dipAngle, dipDirection) ==
    Call("addLine", <<dipAngle, dipDirection>>, addLine(Cur, dipAngle, dipDirection))

RemovePlane(planeId) ==
    Call("removePlane", <<planeId>>, removePlane(Cur, planeId))

RemoveLine(lineId) ==
    Call("removeLine", <<lineId>>, removeLine(Cur, lineId))

SetPlaneRepresentation(representation) ==
    Call("setPlaneRepresentation", <<representation>>,
         setPlaneRepresentation(Cur, representation))

Resize(rectWidth) ==
    Call("resize", <<rectWidth>>, resize(Cur, rectWidth))

SetStyle(className) ==
    Call("setStyle", <<className>>, setStyle(Cur, className, CustomStyle))

ToggleGraticules(v) ==
    Call("toggleGraticules", <<v>>, toggleGraticules(Cur, v))

AddPlaneAny == \E m \in Measurements : AddPlane(m[1], m[2])
AddLineAny == \E m \in Measurements : AddLine(m[1], m[2])
RemovePlaneAny == \E id \in 0..MaxId : RemovePlane(id)
RemoveLineAny == \E id \in 0..MaxId : RemoveLine(id)
SetPlaneRepresentationAny == \E rep \in Representations : SetPlaneRepresentation(rep)
ResizeAny == \E w \in Widths : Resize(w)
SetStyleAny == \E c \in SetStyleClasses : SetStyle(c)
ToggleGraticulesAny == \E v \in ToggleArgs : ToggleGraticules(v)

\* the registries' operations and the resize event
Next ==
    \/ AddPlaneAny
    \/ AddLineAny
    \/ RemovePlaneAny
    \/ RemoveLineAny
    \/ SetPlaneRepresentationAny
    \/ ResizeAny

Spec == Init /\ [][Next]_vars

\* everything but the record of the last call
instance == <<planes, lines, g, planeRepresentation, graticulesVisible, styles,
              width, height>>

(***************************************************************************)
(* The two pure helpers, applied to numbers of any size: they read and     *)
(* write nothing of the instance.                                          *)
(***************************************************************************)
DipAngles == {-1, 0, 30, 90, 91}
DipDirections ==
    {-1, 77, 179, 181, 257, 359, 361} \cup {d \in 0..720 : d % 10 = 0}

ValidateDipDirection(dipAngle, dipDirection) ==
    /\ ret' = [op |-> "_validateDipDirection", args |-> <<dipAngle, dipDirection>>,
               result |-> <<validateDipDirection(dipAngle, dipDirection)>>,
               err |-> NoError]
    /\ UNCHANGED instance

CalculatePoleCoordinates(dipAngle, dipDirection) ==
    /\ ret' = [op |-> "_calculatePoleCoordinates", args |-> <<dipAngle, dipDirection>>,
               result |-> <<calculatePoleCoordinates(dipAngle, dipDirection)>>,
               err |-> NoError]
    /\ UNCHANGED instance

ValidateDipDirectionAny ==
    \E a \in DipAngles, d \in DipDirections : ValidateDipDirection(a, d)
CalculatePoleCoordinatesAny ==
    \E a \in DipAngles, d \in DipDirections : CalculatePoleCoordinates(a, d)

NextHelpers ==
    \/ ValidateDipDirectionAny
    \/ CalculatePoleCoordinatesAny

HelperSpec == Init /\ [][NextHelpers]_vars

(***************************************************************************)
(* The style store: getStyle and setStyle.                                 *)
(***************************************************************************)
GetStyle(className) ==
    LET st == getStyle(styles, className)
    IN  Call("getStyle", <<className>>,
             IF st.err # NoError THEN Thrown(Cur, st.err)
             ELSE Returned(Cur, <<st.value>>))

GetStyleAny == \E c \in ClassNames : GetStyle(c)

NextStyle ==
    \/ SetStyleAny
    \/ GetStyleAny

StyleSpec == Init /\ [][NextStyle]_vars

(***************************************************************************)
(* The points drawn: lines, and planes in either representation, added     *)
(* with measurements over the whole range of dipAngle and dipDirection.    *)
(***************************************************************************)
PointMeasurements ==
    {<<0, 0>>, <<30, 45>>, <<45, 180>>, <<60, 225>>, <<30, 257>>, <<90, 360>>}

AddPlanePoint == \E m \in PointMeasurements : AddPlane(m[1], m[2])
AddLinePoint == \E m \in PointMeasurements : AddLine(m[1], m[2])

NextPoints ==
    \/ AddPlanePoint
    \/ AddLinePoint
    \/ SetPlaneRepresentationAny

PointSpec == Init /\ [][NextPoints]_vars

(***************************************************************************)
(* The resize event on an instance constructed with either value of the    *)
(* showGraticules option, between the registries' operations.              *)
(***************************************************************************)
ResizeInit ==
    \E style \in StyleOptions, showGraticules \in BOOLEAN,
       representation \in RepresentationOptions, rectWidth \in InitialWidths :
        Constructed(style, showGraticules, representation, rectWidth)

NextResize ==
    \/ AddPlaneAny
    \/ AddLineAny
    \/ RemovePlaneAny
    \/ RemoveLineAny
    \/ SetPlaneRepresentationAny
    \/ ResizeAny

ResizeSpec == ResizeInit /\ [][NextResize]_vars

(***************************************************************************)
(* The graticules: shown, hidden and toggled, on an instance constructed   *)
(* with either value of the showGraticules option, between adds, removes   *)
(* and resizes.                                                            *)
(***************************************************************************)
ShowGraticules == Call("showGraticules", <<>>, toggleGraticules(Cur, "true"))

HideGraticules == Call("hideGraticules", <<>>, toggleGraticules(Cur, "false"))

GraticuleInit ==
    \E showGraticules \in BOOLEAN, representation \in RepresentationOptions,
       rectWidth \in InitialWidths :
        Constructed({}, showGraticules, representation, rectWidth)

NextGraticules ==
    \/ ShowGraticules
    \/ HideGraticules
    \/ ToggleGraticulesAny
    \/ ResizeAny
    \/ AddPlaneAny
    \/ RemovePlaneAny

GraticuleSpec == GraticuleInit /\ [][NextGraticules]_vars

(***************************************************************************)
(* The caller of getPlanes() / getLines() writing into what it was given.  *)
(* The array and its { id, path } pairs are made by the call; a pair's     *)
(* `path` is line[1], the object the Map holds under that id.              *)
(***************************************************************************)
\* the object snapshot[i].path is: the value the registry `reg` holds at i
SnapshotPathObject(s, reg, i) ==
    <<reg, (IF reg = "planes" THEN s.planes ELSE s.lines)[i].key>>

\* obj[field] = v
WriteObject(s, obj, field, v) ==
    LET Write(m) == [j \in 1..Len(m) |->
                        IF m[j].key = obj[2] THEN [m[j] EXCEPT !.val[field] = v]
                        ELSE m[j]]
    IN  IF obj[1] = "planes" THEN [s EXCEPT !.planes = Write(@)]
        ELSE [s EXCEPT !.lines = Write(@)]

SnapshotFields == {"dipAngle", "dipDirection"}

\* const snapshot = getPlanes(); snapshot[i - 1].path[field] = 0
WritePlanesSnapshot(i, field) ==
    /\ i \in 1..Len(getPlanes(Cur))
    /\ Call("getPlanes", <<i, field>>,
            Returned(WriteObject(Cur, SnapshotPathObject(Cur, "planes", i), field, 0),
                     Undefined))

\* const snapshot = getLines(); snapshot[i - 1].path[field] = 0
WriteLinesSnapshot(i, field) ==
    /\ i \in 1..Len(getLines(Cur))
    /\ Call("getLines", <<i, field>>,
            Returned(WriteObject(Cur, SnapshotPathObject(Cur, "lines", i), field, 0),
                     Undefined))

WritePlanesSnapshotAny ==
    \E i \in 1..MaxPrimitives, f \in SnapshotFields : WritePlanesSnapshot(i, f)
WriteLinesSnapshotAny ==
    \E i \in 1..MaxPrimitives, f \in SnapshotFields : WriteLinesSnapshot(i, f)

NextSnapshot ==
    \/ AddPlaneAny
    \/ AddLineAny
    \/ WritePlanesSnapshotAny
    \/ WriteLinesSnapshotAny

SnapshotSpec == Init /\ [][NextSnapshot]_vars

(***************************************************************************)
(* A plot on which nothing is ever removed: adds and resizes only.         *)
(***************************************************************************)
NextAdds ==
    \/ AddPlaneAny
    \/ AddLineAny
    \/ ResizeAny

AddSpec == Init /\ [][NextAdds]_vars

(***************************************************************************)
(* The constructor from its first line: the `selector` and `element`       *)
(* options (<<>> when not given) and the resolution of the container.      *)
(***************************************************************************)
MissingContainer ==
    "Error: Either 'selector' or 'element' must be provided to initialize Stereonet."
NullContainer == "TypeError: container is null"

\* the selectors that match an element of the document
Matching == {"body", "#container"}
SelectorOptions == {<<>>, <<"">>, <<"#missing">>, <<"#container">>}
ElementOptions == {<<>>, <<"div">>, <<"section">>}

\* document.querySelector(selector): <<the element>> or <<>> (null)
querySelector(selector) == IF selector \in Matching THEN <<selector>> ELSE <<>>

\* before `new`: nothing of an instance is there
NoInstance ==
    [planes |-> <<>>, lines |-> <<>>, g |-> <<>>, alive |-> {},
     planeRepresentation |-> "", graticulesVisible |-> FALSE,
     styles |-> [c \in ClassNames |-> NoProperty], width |-> 0, height |-> 0]

\* what a construction brought about besides the instance: the svg
\* appended to the container, the resize listener on window
Built(svg, listener) == [svg |-> svg, listener |-> listener]

\* as newStereonet, without the check of the two options
newStereonet_Unchecked(selectorOption, element, style, showGraticules, representation, rectWidth) ==
    LET selector == IF selectorOption = <<>> THEN "body" ELSE selectorOption[1]
        container == IF element # <<>> THEN element ELSE querySelector(selector)
        r == construct(style, showGraticules, representation, rectWidth)
    IN  IF container = <<>>
        THEN [Thrown(NoInstance, NullContainer) EXCEPT !.result = <<Built(FALSE, FALSE)>>]
        ELSE IF r.err # NoError THEN [r EXCEPT !.result = <<Built(TRUE, FALSE)>>]
        ELSE [r EXCEPT !.result = <<Built(TRUE, TRUE)>>]

\* new Stereonet({ selector, element, style, showGraticules, planeRepresentation })
\* on a container of width rectWidth
newStereonet(selectorOption, element, style, showGraticules, representation, rectWidth) ==
    LET selector == IF selectorOption = <<>> THEN "body" ELSE selectorOption[1]
        container == IF element # <<>> THEN element ELSE querySelector(selector)
        r == construct(style, showGraticules, representation, rectWidth)
    IN  IF selector = "" /\ element = <<>>
        THEN [Thrown(NoInstance, MissingContainer) EXCEPT !.result = <<Built(FALSE, FALSE)>>]
        ELSE IF container = <<>>
        THEN [Thrown(NoInstance, NullContainer) EXCEPT !.result = <<Built(FALSE, FALSE)>>]
        ELSE IF r.err # NoError THEN [r EXCEPT !.result = <<Built(TRUE, FALSE)>>]
        ELSE [r EXCEPT !.result = <<Built(TRUE, TRUE)>>]

New(selectorOption, element, style, showGraticules, representation, rectWidth) ==
    /\ ret.op = "none"
    /\ Call("new", <<selectorOption, element>>,
            newStereonet(selectorOption, element, style, showGraticules,
                         representation, rectWidth))

NewAny ==
    \E selectorOption \in SelectorOptions, element \in ElementOptions,
       style \in StyleOptions, showGraticules \in BOOLEAN,
       representation \in {"arc", "pole"}, rectWidth \in Widths \cup InitialWidths :
        New(selectorOption, element, style, showGraticules, representation, rectWidth)

ConstructorInit ==
    /\ planes = NoInstance.planes
    /\ lines = NoInstance.lines
    /\ g = NoInstance.g
    /\ planeRepresentation = NoInstance.planeRepresentation
    /\ graticulesVisible = NoInstance.graticulesVisible
    /\ styles = NoInstance.styles
    /\ width = NoInstance.width
    /\ height = NoInstance.height
    /\ ret = [op |-> "none", args |-> <<>>, result |-> Undefined, err |-> NoError]

ConstructorSpec == ConstructorInit /\ [][NewAny]_vars

(***************************************************************************)
(* What the claims speak of.                                               *)
(***************************************************************************)
\* the ids getPlanes() / getLines() report
PlaneIds == {getPlanes(Cur)[i].id : i \in 1..Len(planes)}
LineIds == {getLines(Cur)[i].id : i \in 1..Len(lines)}

\* the Measurement each live id denotes
MeasurementOf(m) == [k \in MapKeys(m) |-> <<MapGet(m, k).dipAngle, MapGet(m, k).dipDirection>>]

\* the measurements the operations are tried on in every state reached
ProbeMeasurements ==
    Measurements \cup {<<0, 0>>, <<91, 0>>, <<-1, 45>>, <<30, 361>>, <<30, -1>>}

ValidMeasurements ==
    {m \in ProbeMeasurements : m[1] >= 0 /\ m[1] <= 90 /\ m[2] >= 0 /\ m[2] <= 360}
InvalidMeasurements == ProbeMeasurements \ ValidMeasurements

IsId(result) == Len(result) = 1 /\ result[1] \in Nat

(***************************************************************************)
(* C1.  Within each namespace the ids handed out strictly increase: a      *)
(* successful add returns one more than the successful add before it and,  *)
(* the live ids all having been handed out earlier, more than every live   *)
(* id of its namespace.                                                    *)
(***************************************************************************)
C1_IdsStrictlyIncreasing ==
    [][/\ \A m \in Measurements :
            (AddPlane(m[1], m[2]) /\ IsId(ret'.result)) =>
                /\ \A k \in PlaneIds : parseInt(k) < ret'.result[1]
                /\ (ret.op = "addPlane" /\ IsId(ret.result)) =>
                       ret'.result[1] = ret.result[1] + 1
       /\ \A m \in Measurements :
            (AddLine(m[1], m[2]) /\ IsId(ret'.result)) =>
                /\ \A k \in LineIds : parseInt(k) < ret'.result[1]
                /\ (ret.op = "addLine" /\ IsId(ret.result)) =>
                       ret'.result[1] = ret.result[1] + 1]_vars

(***************************************************************************)
(* C2.  A live id keeps the Measurement it was added with: no call changes *)
(* the Measurement of an id that is live before and after it.              *)
(***************************************************************************)
C2_LiveIdKeepsMeasurement ==
    [][/\ \A k \in PlaneIds \cap PlaneIds' :
            MeasurementOf(planes)[k] = MeasurementOf(planes')[k]
       /\ \A k \in LineIds \cap LineIds' :
            MeasurementOf(lines)[k] = MeasurementOf(lines')[k]]_vars

(***************************************************************************)
(* C3.  A resize leaves the sets of ids that getPlanes() and getLines()    *)
(* report as they were.                                                    *)
(***************************************************************************)
C3_ResizeKeepsIds ==
    [][ResizeAny => (PlaneIds' = PlaneIds /\ LineIds' = LineIds)]_vars

\* what add `op` does to the instance as it stands
Add(op, m) == IF op = "addPlane" THEN addPlane(Cur, m[1], m[2]) ELSE addLine(Cur, m[1], m[2])

\* the registry add `op` writes to
Registry(op, s) == IF op = "addPlane" THEN s.planes ELSE s.lines

\* the style class of the primitive add `op` draws
PrimitiveClass(op) ==
    IF op = "addLine" THEN "data_line"
    ELSE IF planeRepresentation = "arc" THEN "data_plane" ELSE "data_plane_pole"

(***************************************************************************)
(* C4 as claimed.  addPlane and addLine return an id for dipAngle in       *)
(* [0,90] and dipDirection in [0,360); for any other value they return no  *)
(* id and leave the registry sizes as they were.                           *)
(***************************************************************************)
C4_RangeAsClaimed ==
    \A m \in ProbeMeasurements : \A op \in {"addPlane", "addLine"} :
        LET r == Add(op, m)
        IN  IF m[1] >= 0 /\ m[1] <= 90 /\ m[2] >= 0 /\ m[2] < 360
            THEN r.err = NoError => IsId(r.result)
            ELSE /\ r.result = Undefined
                 /\ Len(r.s.planes) = Len(planes)
                 /\ Len(r.s.lines) = Len(lines)

(***************************************************************************)
(* C4 as amended.  For dipAngle in [0,90] and dipDirection in [0,360],     *)
(* 360 included, addPlane and addLine return an id that the registry then  *)
(* holds (or throw the style error when the style class of the primitive   *)
(* is undefined); for dipAngle < 0 or > 90, or dipDirection < 0 or > 360,  *)
(* they return no id, throw nothing and leave the registry sizes as they   *)
(* were.                                                                   *)
(***************************************************************************)
C4_RangeAsValidated ==
    \A m \in ProbeMeasurements : \A op \in {"addPlane", "addLine"} :
        LET r == Add(op, m)
        IN  IF m[1] >= 0 /\ m[1] <= 90 /\ m[2] >= 0 /\ m[2] <= 360
            THEN \/ /\ r.err = NoError
                    /\ IsId(r.result)
                    /\ MapHas(Registry(op, r.s), toString(r.result[1]))
                 \/ /\ r.err = StyleNotFound
                    /\ ~styles[PrimitiveClass(op)].defined
            ELSE /\ r.result = Undefined
                 /\ r.err = NoError
                 /\ Len(r.s.planes) = Len(planes)
                 /\ Len(r.s.lines) = Len(lines)

\* addPlane(90, 360) returned an id
C4_Witness ==
    /\ ret.op = "addPlane"
    /\ ret.args = <<90, 360>>
    /\ IsId(ret.result)
    /\ MapHas(planes, toString(ret.result[1]))

(***************************************************************************)
(* C5.  An add called with an invalid measurement returns no id, throws    *)
(* nothing and changes nothing: the registries, the children of g and the  *)
(* id the next successful add returns are what they were.                  *)
(***************************************************************************)
C5_RejectedAddChangesNothing ==
    LET nextPlane == addPlane(Cur, 30, 45).result
        nextLine == addLine(Cur, 30, 45).result
    IN  \A m \in InvalidMeasurements : \A op \in {"addPlane", "addLine"} :
            LET r == Add(op, m)
            IN  /\ r.result = Undefined
                /\ r.err = NoError
                /\ r.s = Cur
                /\ op = "addPlane" => addPlane(r.s, 30, 45).result = nextPlane
                /\ op = "addLine" => addLine(r.s, 30, 45).result = nextLine

\* addPlane(95, 45) was turned away on a plot that holds a plane and a line
C5_Witness ==
    /\ ret.op = "addPlane"
    /\ ret.args = <<95, 45>>
    /\ ret.result = Undefined
    /\ Len(planes) > 0
    /\ Len(lines) > 0

(***************************************************************************)
(* C6.  After removePlane(id), getPlanes() does not report id; a second    *)
(* removePlane(id), and removePlane of an id that is not there, change     *)
(* nothing in the registries or among the children of g.  Likewise for     *)
(* removeLine.                                                             *)
(***************************************************************************)
C6_RemoveIdempotent ==
    \A id \in 0..MaxId :
        LET p1 == removePlane(Cur, id)
            p2 == removePlane(p1.s, id)
            l1 == removeLine(Cur, id)
            l2 == removeLine(l1.s, id)
        IN  /\ \A i \in 1..Len(getPlanes(p1.s)) : getPlanes(p1.s)[i].id # toString(id)
            /\ p2.s = p1.s
            /\ toString(id) \notin PlaneIds => p1.s = Cur
            /\ \A i \in 1..Len(getLines(l1.s)) : getLines(l1.s)[i].id # toString(id)
            /\ l2.s = l1.s
            /\ toString(id) \notin LineIds => l1.s = Cur
            /\ p1.err = NoError /\ p2.err = NoError
            /\ l1.err = NoError /\ l2.err = NoError

\* removePlane(0) has run on two planes: 0 is gone and 1 is still there
C6_Witness ==
    /\ ret.op = "removePlane"
    /\ ret.args = <<0>>
    /\ PlaneIds = {"1"}

\* every entry of the registry holds a primitive that is a child of g
EntriesDrawn(m, els) ==
    \A i \in 1..Len(m) :
        /\ Len(m[i].val.path) = 1
        /\ m[i].val.path[1] \in Attached(els)

C8_SwitchIsAtomic ==
    [][\A rep \in {"arc", "pole"} :
          SetPlaneRepresentation(rep) =>
              /\ MeasurementOf(planes') = MeasurementOf(planes)
              /\ EntriesDrawn(planes', g')
              /\ \/ ret'.err = NoError /\ planeRepresentation' = rep
                 \/ ret'.err # NoError /\ planeRepresentation' = planeRepresentation]_vars

(***************************************************************************)
(* C9.  setPlaneRepresentation with a mode other than 'arc' and 'pole'     *)
(* throws the invalid-representation error and changes nothing.            *)
(***************************************************************************)
C9_InvalidModeRejected ==
    \A rep \in Representations \ {"arc", "pole"} :
        LET r == setPlaneRepresentation(Cur, rep)
        IN  /\ r.err = InvalidRepresentation
            /\ r.s = Cur

\* setPlaneRepresentation('dot') was thrown out on a plot that holds planes
C9_Witness ==
    /\ ret.op = "setPlaneRepresentation"
    /\ ret.args = <<"dot">>
    /\ ret.err = InvalidRepresentation
    /\ Len(planes) > 0

\* the primitives the entries of a registry hold, as drawn
Primitives(m, els) == {els[i] : i \in {j \in 1..Len(els) : els[j].h \in Handles(m)}}

(***************************************************************************)
(* C10.  addLine and removeLine leave the plane registry (ids,             *)
(* Measurements, handles) and the planes' primitives as they were, and     *)
(* addPlane and removePlane leave the line registry and the lines'         *)
(* primitives as they were, whatever ids the two registries share.         *)
(***************************************************************************)
C10_SeparateNamespaces ==
    /\ \A m \in Measurements :
          LET l == addLine(Cur, m[1], m[2]).s
              p == addPlane(Cur, m[1], m[2]).s
          IN  /\ l.planes = planes
              /\ Primitives(planes, l.g) = Primitives(planes, g)
              /\ p.lines = lines
              /\ Primitives(lines, p.g) = Primitives(lines, g)
    /\ \A id \in 0..MaxId :
          LET l == removeLine(Cur, id).s
              p == removePlane(Cur, id).s
          IN  /\ l.planes = planes
              /\ getPlanes(l) = getPlanes(Cur)
              /\ Primitives(planes, l.g) = Primitives(planes, g)
              /\ p.lines = lines
              /\ getLines(p) = getLines(Cur)
              /\ Primitives(lines, p.g) = Primitives(lines, g)

\* a plane and a line carry the same id, and the line has just been added
C10_Witness ==
    /\ ret.op = "addLine"
    /\ IsId(ret.result)
    /\ toString(ret.result[1]) \in PlaneIds
    /\ toString(ret.result[1]) \in LineIds

(***************************************************************************)
(* C11.  The pole direction _calculatePoleCoordinates gives for a          *)
(* dipDirection d is the one it gives for d + 360.                         *)
(***************************************************************************)
C11_PoleDirectionPeriodic ==
    ret.op = "_calculatePoleCoordinates" =>
        ret.result[1][2] = calculatePoleCoordinates(ret.args[1], ret.args[2] + 360)[2]

(***************************************************************************)
(* C12.  For a measurement the validator admits, the pole direction is     *)
(* (dipDirection + 180) mod 360, a value of [0,360), and the pole          *)
(* complement is 90 - dipAngle.                                            *)
(***************************************************************************)
C12_PoleDirectionWraps ==
    (/\ ret.op = "_calculatePoleCoordinates"
     /\ validateDipDirection(ret.args[1], ret.args[2])) =>
        /\ ret.result[1][2] = (ret.args[2] + 180) % 360
        /\ ret.result[1][2] >= 0
        /\ ret.result[1][2] < 360
        /\ ret.result[1][1] = 90 - ret.args[1]

\* dipDirection 257 gave pole direction 77
C12_Witness ==
    /\ ret.op = "_calculatePoleCoordinates"
    /\ ret.args = <<30, 257>>
    /\ ret.result = << <<60, 77>> >>

(***************************************************************************)
(* C15.  The validator never throws, and returns false exactly when        *)
(* dipAngle is outside [0,90] or dipDirection is outside [0,360]: 0 and    *)
(* 90, 0 and 360 are accepted.                                             *)
(***************************************************************************)
C15_ValidatorInclusive ==
    ret.op = "_validateDipDirection" =>
        /\ ret.err = NoError
        /\ ret.result[1] = (/\ ret.args[1] >= 0 /\ ret.args[1] <= 90
                            /\ ret.args[2] >= 0 /\ ret.args[2] <= 360)
        /\ ret.args \in {<<0, 0>>, <<90, 360>>, <<0, 360>>, <<90, 0>>} => ret.result[1]

\* the validator accepted dipAngle 0 with dipDirection 360
C15_Witness ==
    /\ ret.op = "_validateDipDirection"
    /\ ret.args = <<0, 360>>
    /\ ret.result = <<TRUE>>

(***************************************************************************)
(* C13.  getStyle(className) throws the not-found error exactly when       *)
(* className was never registered (it is no default class, was not given   *)
(* at construction and was not set by setStyle), and after setStyle(c, s)  *)
(* getStyle(c) returns the string of s.                                    *)
(***************************************************************************)
C13_StyleStoreKeyed ==
    /\ ret.op = "getStyle" =>
           ((ret.err = StyleNotFound) <=> ~styles[ret.args[1]].own)
    /\ ret.op = "setStyle" =>
           getStyle(styles, ret.args[1]) =
               [err |-> NoError, value |-> JoinEntries(CustomStyle.entries)]

\* the classes toggleGraticules selects
GraticuleClasses == {"graticule", "graticule-10", "outline"}

(***************************************************************************)
(* C14.  After showGraticules() returns, graticulesVisible is true and     *)
(* the graticule primitives are children of g and displayed; after         *)
(* hideGraticules() returns none of them is displayed.                     *)
(***************************************************************************)
C14_ShowGraticulesShows ==
    /\ ret.op = "showGraticules" =>
           /\ graticulesVisible
           /\ \A c \in GraticuleClasses :
                 \E i \in 1..Len(g) : g[i].class = c /\ g[i].display # "none"
           /\ \A i \in 1..Len(g) :
                 g[i].class \in GraticuleClasses => g[i].display # "none"
    /\ ret.op = "hideGraticules" =>
           /\ ~graticulesVisible
           /\ \A i \in 1..Len(g) :
                 g[i].class \in GraticuleClasses => g[i].display = "none"

(***************************************************************************)
(* C16.  What getPlanes() / getLines() return is a snapshot, one pair per   *)
(* live feature under its id in insertion order, and no part of it is the  *)
(* registry's own storage: a caller writing into the returned pairs        *)
(* changes no stored Measurement, handle or membership.                    *)
(***************************************************************************)
C16_SnapshotNotStorage ==
    [][/\ (WritePlanesSnapshotAny \/ WriteLinesSnapshotAny) =>
              (planes' = planes /\ lines' = lines)
       /\ \A i \in 1..Len(planes) : getPlanes(Cur)[i].id = planes[i].key
       /\ \A i \in 1..Len(lines) : getLines(Cur)[i].id = lines[i].key]_vars

\* every primitive whose entry is in a registry now and not in s2 is no
\* child of g in s2
Released(s2) ==
    \A h \in (Handles(planes) \ Handles(s2.planes))
                 \cup (Handles(lines) \ Handles(s2.lines)) :
        h \notin Attached(s2.g)

(***************************************************************************)
(* C17.  Whatever operation makes a feature's entry leave its registry     *)
(* (a remove, a switch of representation, a resize, an add that replaces   *)
(* it), the primitive of that entry has been taken off the drawing         *)
(* surface when the operation ends.                                        *)
(***************************************************************************)
C17_ReleasedBeforeUnreachable ==
    /\ \A id \in 0..MaxId :
          /\ Released(removePlane(Cur, id).s)
          /\ Released(removeLine(Cur, id).s)
    /\ \A rep \in Representations : Released(setPlaneRepresentation(Cur, rep).s)
    /\ \A w \in Widths : Released(resize(Cur, w).s)
    /\ \A m \in Measurements :
          /\ Released(addPlane(Cur, m[1], m[2]).s)
          /\ Released(addLine(Cur, m[1], m[2]).s)

KeysInOrder(m) == [i \in 1..Len(m) |-> m[i].key]

(***************************************************************************)
(* C19.  A successful addPlane (addLine) returns the number of entries the *)
(* plane (line) registry holds when it is called; so, on a plot where      *)
(* nothing was ever removed, the k-th successful add returns k-1 and the   *)
(* k features are all live: three valid adds on an empty plot return 0, 1  *)
(* and 2.                                                                  *)
(***************************************************************************)
C19_IdIsRegistrySize ==
    /\ \A m \in ProbeMeasurements : \A op \in {"addPlane", "addLine"} :
          IsId(Add(op, m).result) => Add(op, m).result[1] = Len(Registry(op, Cur))
    /\ KeysInOrder(planes) = [i \in 1..Len(planes) |-> toString(i - 1)]
    /\ KeysInOrder(lines) = [i \in 1..Len(lines) |-> toString(i - 1)]
    /\ (ret.op = "addPlane" /\ IsId(ret.result)) => ret.result[1] = Len(planes) - 1
    /\ (ret.op = "addLine" /\ IsId(ret.result)) => ret.result[1] = Len(lines) - 1
    /\ Len(planes) = 0 =>
          LET a1 == addPlane(Cur, 30, 45)
              a2 == addPlane(a1.s, 90, 360)
              a3 == addPlane(a2.s, 30, 45)
          IN  /\ <<a1.result, a2.result, a3.result>> = << <<0>>, <<1>>, <<2>> >>
              /\ KeysInOrder(a3.s.planes) = <<"0", "1", "2">>

\* the second addPlane on a plot has returned 1 and both planes are live
C19_Witness ==
    /\ ret.op = "addPlane"
    /\ ret.result = <<1>>
    /\ PlaneIds = {"0", "1"}

\* the children of g other than the primitives the plane entries hold
NotOfPlanes(m, els) == SelectSeq(els, LAMBDA x : x.h \notin Handles(m))

\* the element named h among els
ElementOf(els, h) == els[CHOOSE i \in 1..Len(els) : els[i].h = h]

(***************************************************************************)
(* C20.  After a setPlaneRepresentation(mode) that returns, the mode is    *)
(* `mode`; the plane registry has the ids it had, in the order it had      *)
(* them, each with its Measurement and with one primitive of its own,      *)
(* newly created in the new mode, the old one being off the surface; the   *)
(* line registry, the line primitives and everything else on the surface   *)
(* are as they were.                                                       *)
(***************************************************************************)
C20_SwitchTouchesOnlyPlanes ==
    \A mode \in {"arc", "pole"} :
        LET r == setPlaneRepresentation(Cur, mode)
            t == r.s
        IN  r.err = NoError =>
                /\ t.planeRepresentation = mode
                /\ KeysInOrder(t.planes) = KeysInOrder(planes)
                /\ MeasurementOf(t.planes) = MeasurementOf(planes)
                /\ EntriesDrawn(t.planes, t.g)
                /\ Cardinality(Handles(t.planes)) = Len(planes)
                /\ Handles(t.planes) \cap Handles(planes) = {}
                /\ Handles(planes) \cap Attached(t.g) = {}
                /\ \A i \in 1..Len(t.planes) :
                      LET e == ElementOf(t.g, t.planes[i].val.path[1])
                      IN  /\ e.datum[1] = (IF mode = "arc" THEN "graticule" ELSE "Point")
                          /\ e.dataId = <<parseInt(t.planes[i].key)>>
                          /\ e.hover = <<t.planes[i].val.dipAngle,
                                         t.planes[i].val.dipDirection>>
                /\ t.lines = lines
                /\ Primitives(lines, t.g) = Primitives(lines, g)
                /\ NotOfPlanes(t.planes, t.g) = NotOfPlanes(planes, g)
                /\ t.styles = styles
                /\ t.graticulesVisible = graticulesVisible
                /\ t.width = width /\ t.height = height

\* a switch to 'pole' has returned on a plot holding a plane and a line
C20_Witness ==
    /\ ret.op = "setPlaneRepresentation"
    /\ ret.args = <<"pole">>
    /\ ret.err = NoError
    /\ planeRepresentation = "pole"
    /\ Len(planes) > 0
    /\ Len(lines) > 0

\* the Measurements a registry holds, in its iteration order
MeasurementsInOrder(m) == [i \in 1..Len(m) |-> <<m[i].val.dipAngle, m[i].val.dipDirection>>]

\* what the children of g draw, in document order
DrawnData(els) == [i \in 1..Len(els) |-> els[i].datum[1]]

\* what _renderBaseGraticules (if visible) and _renderOutlineCrosshairs draw
BaseDrawn(visible) ==
    (IF visible THEN <<"graticule2", "graticule10", "outline">> ELSE <<>>)
        \o <<"crosshairs", "outline">>

(***************************************************************************)
(* C21.  A resize to any width returns and leaves: the plane and line      *)
(* registries with the Measurements they had, in the order they had them;  *)
(* the representation mode and the graticule flag as they were; width and  *)
(* height both the new width; and, as the children of g, only elements     *)
(* created by this resize: the graticule (if visible), the crosshairs and  *)
(* the outline, then one primitive per plane entry and one per line entry, *)
(* each drawn from its entry's Measurement.                                *)
(***************************************************************************)
C21_ResizeRebuilds ==
    \A w \in Widths \cup InitialWidths :
        LET r == resize(Cur, w)
            t == r.s
            base == Len(BaseDrawn(graticulesVisible))
        IN  /\ r.err = NoError
            /\ MeasurementsInOrder(t.planes) = MeasurementsInOrder(planes)
            /\ MeasurementsInOrder(t.lines) = MeasurementsInOrder(lines)
            /\ t.planeRepresentation = planeRepresentation
            /\ t.graticulesVisible = graticulesVisible
            /\ t.width = w /\ t.height = w
            /\ Attached(t.g) \cap Cur.alive = {}
            /\ Cardinality(Attached(t.g)) = Len(t.g)
            /\ Len(t.g) = base + Len(planes) + Len(lines)
            /\ SubSeq(DrawnData(t.g), 1, base) = BaseDrawn(graticulesVisible)
            /\ \A i \in 1..Len(t.planes) :
                  /\ t.planes[i].val.path = <<t.g[base + i].h>>
                  /\ t.g[base + i].hover = MeasurementsInOrder(planes)[i]
                  /\ t.g[base + i].datum[1] =
                        (IF planeRepresentation = "arc" THEN "graticule" ELSE "Point")
            /\ \A i \in 1..Len(t.lines) :
                  /\ t.lines[i].val.path = <<t.g[base + Len(planes) + i].h>>
                  /\ t.g[base + Len(planes) + i].hover = MeasurementsInOrder(lines)[i]
                  /\ t.g[base + Len(planes) + i].datum[1] = "Point"
            /\ \A i \in 1..Len(t.g) : t.g[i].transform[1] = <<w \div 2, w \div 2>>

\* a resize has run on a plot with hidden graticules, a plane and a line
C21_Witness ==
    /\ ret.op = "resize"
    /\ ret.err = NoError
    /\ ~graticulesVisible
    /\ Len(planes) > 0
    /\ Len(lines) > 0
    /\ width = 600 /\ height = 600

\* the element a call has just appended: the last child of g
LastDrawn(els) == els[Len(els)]

\* the Point datum and the rotation of an element
PointOf(e) == e.datum
RotationOf(e) == e.transform[2]

(***************************************************************************)
(* C22 as stated.  In 'pole' mode, for every accepted measurement, the     *)
(* point addLine draws and the point addPlane draws have the same point    *)
(* coordinate, the first rotated by dipDirection and the second by         *)
(* (dipDirection + 180) mod 360.                                           *)
(***************************************************************************)
C22_SamePointCoordinate ==
    planeRepresentation = "pole" =>
        \A m \in PointMeasurements :
            LET l == addLine(Cur, m[1], m[2])
                p == addPlane(Cur, m[1], m[2])
            IN  (IsId(l.result) /\ IsId(p.result)) =>
                    /\ PointOf(LastDrawn(l.s.g)) = PointOf(LastDrawn(p.s.g))
                    /\ RotationOf(LastDrawn(l.s.g)) = <<m[2]>>
                    /\ RotationOf(LastDrawn(p.s.g)) = <<(m[2] + 180) % 360>>

(***************************************************************************)
(* C22 as the code has it.  addLine draws the point [0, 90 - dipAngle]     *)
(* rotated by dipDirection; addPlane in 'pole' mode draws the point        *)
(* [0, dipAngle] rotated by (dipDirection + 180) mod 360, which is the     *)
(* point of the line (90 - dipAngle, (dipDirection + 180) mod 360).  For   *)
(* equal dipAngle the two point coordinates are equal only at 45.          *)
(***************************************************************************)
C22_PointGeometry ==
    /\ \A m \in PointMeasurements :
          LET l == addLine(Cur, m[1], m[2])
              p == addPlane(Cur, m[1], m[2])
              q == addLine(Cur, 90 - m[1], (m[2] + 180) % 360)
          IN  /\ IsId(l.result) =>
                    /\ PointOf(LastDrawn(l.s.g)) = <<"Point", 0, 90 - m[1]>>
                    /\ RotationOf(LastDrawn(l.s.g)) = <<m[2]>>
              /\ (planeRepresentation = "pole" /\ IsId(p.result)) =>
                    /\ PointOf(LastDrawn(p.s.g)) = <<"Point", 0, m[1]>>
                    /\ RotationOf(LastDrawn(p.s.g)) = <<(m[2] + 180) % 360>>
                    /\ IsId(q.result)
                    /\ PointOf(LastDrawn(p.s.g)) = PointOf(LastDrawn(q.s.g))
                    /\ RotationOf(LastDrawn(p.s.g)) = RotationOf(LastDrawn(q.s.g))
                    /\ IsId(l.result) =>
                          ((PointOf(LastDrawn(p.s.g)) = PointOf(LastDrawn(l.s.g)))
                              <=> m[1] = 45)
    /\ (ret.op = "addLine" /\ IsId(ret.result)) =>
          /\ PointOf(LastDrawn(g)) = <<"Point", 0, 90 - ret.args[1]>>
          /\ RotationOf(LastDrawn(g)) = <<ret.args[2]>>
    /\ (ret.op = "addPlane" /\ IsId(ret.result) /\ planeRepresentation = "pole") =>
          /\ PointOf(LastDrawn(g)) = <<"Point", 0, ret.args[1]>>
          /\ RotationOf(LastDrawn(g)) = <<(ret.args[2] + 180) % 360>>

\* addPlane(30, 257) has drawn a pole at [0, 30], rotated by 77, next to a line
C22_Witness ==
    /\ ret.op = "addPlane"
    /\ ret.args = <<30, 257>>
    /\ IsId(ret.result)
    /\ planeRepresentation = "pole"
    /\ PointOf(LastDrawn(g)) = <<"Point", 0, 30>>
    /\ RotationOf(LastDrawn(g)) = <<77>>
    /\ Len(lines) > 0

(***************************************************************************)
(* C23.  In every reachable state the plane and line primitives among the  *)
(* children of g are exactly the primitives the registry entries hold:     *)
(* every such child is held by one entry, every entry holds one primitive  *)
(* that is a child of g, and no two entries hold the same one.             *)
(***************************************************************************)
C23_NoOrphans ==
    /\ {g[i].h : i \in DataElements(g)} = Handles(planes) \cup Handles(lines)
    /\ EntriesDrawn(planes, g)
    /\ EntriesDrawn(lines, g)
    /\ Cardinality(Handles(planes) \cup Handles(lines)) = Len(planes) + Len(lines)

====
